---------------------------- MODULE Spec2Model ----------------------------
(***************************************************************************)
(* Model of tools/vmc_postproc/hl.py: get_eig_sys (eigensystem builder)    *)
(* and get_sq_ampl (structure-factor amplitude computer).                  *)
(*                                                                         *)
(* Arrays keep Python's 0-based indices: an array of shape (n, r, c) is a  *)
(* function 0..n-1 -> 0..r-1 -> 0..c-1 -> value.  Complex numbers are      *)
(* records [re, im] over the integers.  Optional arguments are tagged:     *)
(* None is [some |-> FALSE], a supplied value v is [some |-> TRUE, v |-> v]*)
(* The code is Python 2 (HO.shape[1]/2 is integer division).               *)
(***************************************************************************)
EXTENDS Integers, Sequences, FiniteSets, TLC

\* Largest sample count nsamp and largest basis dimension d that are explored.
MaxSamp == 2
MaxDim == 2

\* Data sets the loader may hold and wavefunction occupation patterns.
Seeds == {0, 1}
WavStates == {0, 1}
Channels == {"trans", "long", "diagonal"}
WavSources == {"given", "derived", "nomatch"}

-----------------------------------------------------------------------------
(* Python values *)

None == [some |-> FALSE]
Some(x) == [some |-> TRUE, v |-> x]

Range(n) == 0 .. (n - 1)

\* numpy shapes
Shape0(A) == Cardinality(DOMAIN A)
Shape1(A) == IF Shape0(A) = 0 THEN 0 ELSE Cardinality(DOMAIN A[0])
Shape2(A) == IF Shape1(A) = 0 THEN 0 ELSE Cardinality(DOMAIN A[0][0])
Size3(A) == Shape0(A) * Shape1(A) * Shape2(A)

\* complex numbers
Cx(a, b) == [re |-> a, im |-> b]
CAdd(x, y) == Cx(x.re + y.re, x.im + y.im)
CMul(x, y) == Cx(x.re * y.re - x.im * y.im, x.re * y.im + x.im * y.re)
CScale(a, x) == Cx(a * x.re, a * x.im)
Conj(x) == Cx(x.re, 0 - x.im)
\* abs(z)**2
Abs2(x) == x.re * x.re + x.im * x.im

RECURSIVE SumInt(_, _)
SumInt(f, n) == IF n = 0 THEN 0 ELSE SumInt(f, n - 1) + f[n - 1]

RECURSIVE SumCx(_, _)
SumCx(f, n) == IF n = 0 THEN Cx(0, 0) ELSE CAdd(SumCx(f, n - 1), f[n - 1])

-----------------------------------------------------------------------------
(* External collaborators (vmc_postproc.load, proc, stagflux, sfpnxphz) *)

\* load.get_quantity(filenames, nsamp): the combined array of shape
\* (nsamp, 2d, d), H stacked over O, of the data set `seed`.
GetQuantity(seed, nsamp, d) ==
    [k \in Range(nsamp) |-> [r \in Range(2 * d) |-> [c \in Range(d) |->
        (((seed + 1) * (r + 1) + (k + 1) * (c + 2) + r * c + k * r) % 5) - 2]]]

\* proc.fermisigns(wav_st, attrs): one sign per basis state; bit i of the
\* occupation pattern decides the sign of basis state i.
Fermisigns(wav_st, d) ==
    [i \in Range(d) |-> IF (wav_st \div (2 ^ i)) % 2 = 1 THEN 0 - 1 ELSE 1]

\* proc.geneigh(H, O, tol): a deterministic function of one sample's (H, O);
\* `fails` says whether the solver cannot produce a solution for it.
Geneigh(Hs, Os, fails) ==
    IF fails THEN [ok |-> FALSE]
    ELSE [ok |-> TRUE,
          vals |-> [k \in DOMAIN Hs |-> Hs[k][k] - Os[k][k]],
          vecs |-> [j \in DOMAIN Hs |-> [k \in DOMAIN Hs |->
                        Cx(Hs[j][k] + 1, Os[k][j])]]]

\* stagflux.spinops(params) and sfpnxphz.spinops(params): three operator
\* vectors of length d each, different per module and per index.
StagfluxSpinops(d) ==
    [a \in 0 .. 2 |-> [i \in Range(d) |-> Cx(a + i + 1, a - 1)]]
SfpnxphzSpinops(d) ==
    [a \in 0 .. 2 |-> [i \in Range(d) |-> Cx(2 * a - i, i + 1)]]
Spinops(mod, d) ==
    IF mod = "stagflux" THEN StagfluxSpinops(d) ELSE SfpnxphzSpinops(d)

-----------------------------------------------------------------------------
(* numpy operations of hl.py *)

\* HO[:, :HO.shape[1]/2, :]
SplitH(HO) ==
    [k \in DOMAIN HO |-> [r \in Range(Shape1(HO) \div 2) |-> HO[k][r]]]
\* HO[:, HO.shape[1]/2:, :]
SplitO(HO) ==
    [k \in DOMAIN HO |-> [r \in Range(Shape1(HO) - (Shape1(HO) \div 2)) |->
        HO[k][r + (Shape1(HO) \div 2)]]]

\* np.diag(v)
Diag(v) ==
    [i \in DOMAIN v |-> [j \in DOMAIN v |-> IF i = j THEN v[i] ELSE 0]]

\* a plausible slip: the outer product of the sign vector instead of np.diag
SignTransformOuter(sgn, M) ==
    LET n == Cardinality(DOMAIN sgn)
        f == [i \in DOMAIN sgn |-> [j \in DOMAIN sgn |-> sgn[i] * sgn[j]]]
    IN  [k \in DOMAIN M |-> [i \in Range(n) |-> [m \in Range(n) |->
            SumInt([j \in Range(n) |->
                SumInt([l \in Range(n) |-> f[i][j] * M[k][j][l] * f[l][m]], n)],
                n)]]]

\* fs = np.diag(sgn); np.einsum('ij,kjl,lm->kim', fs, M, fs)
SignTransform(sgn, M) ==
    LET n == Cardinality(DOMAIN sgn)
        fs == Diag(sgn)
    IN  [k \in DOMAIN M |-> [i \in Range(n) |-> [m \in Range(n) |->
            SumInt([j \in Range(n) |->
                SumInt([l \in Range(n) |-> fs[i][j] * M[k][j][l] * fs[l][m]], n)],
                n)]]]

\* a plausible slip: the shape of the unsplit array HO instead of H
ZerosEvalsFull(Hm) ==
    [k \in DOMAIN Hm |-> [i \in Range(2 * Shape1(Hm)) |-> 0]]

\* np.zeros(H.shape[:2])
ZerosEvals(Hm) == [k \in DOMAIN Hm |-> [i \in Range(Shape1(Hm)) |-> 0]]

\* np.zeros(H.shape, dtype=complex)
ZerosEvecs(Hm) ==
    [k \in DOMAIN Hm |-> [i \in Range(Shape1(Hm)) |->
        [j \in Range(Shape2(Hm)) |-> Cx(0, 0)]]]

\* abs(np.einsum('i,sij,sjk->sk', np.conj(p), O, evecs))**2
SqAmpl(p, Om, Vm) ==
    LET n == Cardinality(DOMAIN p)
    IN  [sm \in DOMAIN Om |-> [k \in Range(n) |->
            Abs2(SumCx([i \in Range(n) |->
                SumCx([j \in Range(n) |->
                    CMul(Conj(p[i]), CScale(Om[sm][i][j], Vm[sm][j][k]))], n)],
                n))]]

-----------------------------------------------------------------------------
(* Decisions of hl.py *)

\* a plausible slip: the eigensystem is rebuilt on every call
HIsNoneAlways(Hopt, elementwise) == "True"

\* a plausible slip: the eigensystem is never rebuilt
HIsNoneNever(Hopt, elementwise) == "False"

\* `if H==None:` (line 31).  None==None is True.  For an ndarray the result
\* depends on numpy: a scalar False (numpy < 1.13), or an elementwise array
\* whose truth value is False for one element and an error for several.
HIsNone(Hopt, elementwise) ==
    IF ~Hopt.some THEN "True"
    ELSE IF elementwise /\ Size3(Hopt.v) > 1 THEN "raise"
    ELSE "False"

\* a plausible slip: an unknown family falls back to stagflux
SelectModuleDefault(sfpnxphz_wav, stagflux_wav) ==
    IF sfpnxphz_wav THEN "sfpnxphz" ELSE "stagflux"

\* lines 35-40: the module whose spinops is used
SelectModule(sfpnxphz_wav, stagflux_wav) ==
    IF sfpnxphz_wav THEN "sfpnxphz"
    ELSE IF stagflux_wav THEN "stagflux"
    ELSE "raise"

\* lines 42, 49: the output branch
SelectBranch(sfpnxphz_wav, stagflux_wav) ==
    IF stagflux_wav THEN "stagflux"
    ELSE IF sfpnxphz_wav THEN "sfpnxphz"
    ELSE "fallthrough"

\* a plausible slip: the two channels' operator indices exchanged
ChannelIndexSwapped(channel) ==
    IF channel = "trans" THEN 2
    ELSE IF channel = "long" THEN 1
    ELSE 0 - 1

\* a plausible slip: every channel other than 'trans' is taken as 'long'
ChannelIndexLax(channel) ==
    IF channel = "trans" THEN 1 ELSE 2

\* lines 43-48: the operator vector index of a channel, -1 for the error
ChannelIndex(channel) ==
    IF channel = "trans" THEN 1
    ELSE IF channel = "long" THEN 2
    ELSE 0 - 1

\* a plausible slip: a failed solve is swallowed and the loop goes on
AfterGeneighSwallow(r) == IF r.ok THEN "assign" ELSE "skip"

\* line 25: the solver's error is not caught
AfterGeneigh(r) == IF r.ok THEN "assign" ELSE "raise"

UnsupportedError == "RuntimeError: sfpnzphx_wav not implemented yet"
ChannelError == "RuntimeError: channel not understood."
SolverError == "proc.geneigh: no solution within tolerance"
PatternError == "AttributeError: 'NoneType' object has no attribute 'groups'"
AmbiguousError == "ValueError: The truth value of an array with more than one element is ambiguous"
OperandError == "np.einsum: operand is None"
IndexErr == "IndexError: index out of bounds"
BroadcastError == "ValueError: could not broadcast input array"

\* evals[s,:] = vals needs equal shapes
Fits(row, slot) == DOMAIN row = DOMAIN slot

-----------------------------------------------------------------------------
(* State *)

VARIABLES
    env,      \* what the collaborators hold: data, attributes, numpy semantics
    call,     \* the call in progress or last made: "none", "eig", "sq0", "sqp"
    pc,       \* position in the code
    given,    \* which of H, O, evals, evecs the caller of get_sq_ampl passed
    H, O, evals, evecs,   \* get_sq_ampl's variables of these names
    eig,      \* get_eig_sys's frame: its H, O, evals, evecs and loop index s
    qp_mod,   \* get_sq_ampl's qp_mod
    branch,   \* the output branch taken at lines 42/49
    trace,    \* the calls made so far in this call, in order
    outcome,  \* how the last call ended
    pre,      \* (H, O, evals, evecs) returned by the direct get_eig_sys call
    resNone,  \* outcome of get_sq_ampl called without a precomputed eigensystem
    tfs, tM0, tM, tn   \* sign vector, batch, transformed batch, times applied

vars == <<env, call, pc, given, H, O, evals, evecs, eig, qp_mod, branch,
          trace, outcome, pre, resNone, tfs, tM0, tM, tn>>
signVars == <<tfs, tM0, tM, tn>>
callVars == <<env, call, pc, given, H, O, evals, evecs, eig, qp_mod, branch,
              trace, outcome, pre, resNone>>

Ev(f, n) == [f |-> f, n |-> n]
NoOutcome == [kind |-> "none", err |-> "", val |-> None]
Raised(e) == [kind |-> "raise", err |-> e, val |-> None]
Returned(x) == [kind |-> "return", err |-> "", val |-> Some(x)]
NoFrame == [H |-> None, O |-> None, evals |-> None, evecs |-> None, s |-> 0]
NoneGiven == [H |-> FALSE, O |-> FALSE, evals |-> FALSE, evecs |-> FALSE]
AllGiven == [H |-> TRUE, O |-> TRUE, evals |-> TRUE, evecs |-> TRUE]
Masks == [H : BOOLEAN, O : BOOLEAN, evals : BOOLEAN, evecs : BOOLEAN]

Envs ==
    {e \in [nsamp : 1 .. MaxSamp, d : 1 .. MaxDim, seed : Seeds,
            wav_st : WavStates, wav : WavSources,
            sfpnxphz_wav : BOOLEAN, stagflux_wav : BOOLEAN,
            channel : Channels, failAt : (0 - 1) .. (MaxSamp - 1),
            elementwise : BOOLEAN] : e.failAt < e.nsamp}

IdleCall ==
    /\ call = "none" /\ pc = "idle" /\ given = NoneGiven
    /\ H = None /\ O = None /\ evals = None /\ evecs = None
    /\ eig = NoFrame /\ qp_mod = "None" /\ branch = "None"
    /\ trace = <<>> /\ outcome = NoOutcome /\ pre = None /\ resNone = NoOutcome

IdleSign == tfs = <<>> /\ tM0 = <<>> /\ tM = <<>> /\ tn = 0

Init == env \in Envs /\ IdleCall /\ IdleSign

\* the call ends: an uncaught exception or a return to the outermost caller
Finish(out) ==
    /\ pc' = "done"
    /\ outcome' = out
    /\ pre' = IF call = "eig" /\ out.kind = "return" THEN out.val ELSE pre
    /\ resNone' = IF call = "sq0" THEN out ELSE resNone

Continue(next) ==
    /\ pc' = next
    /\ UNCHANGED <<outcome, pre, resNone>>

-----------------------------------------------------------------------------
(* get_eig_sys, lines 8-26 *)

\* a direct call of get_eig_sys(filenames, nsamp, wav, tol)
CallGetEigSys ==
    /\ call = "none" /\ pc = "idle"
    /\ call' = "eig"
    /\ pc' = "E11"
    /\ trace' = <<Ev("get_eig_sys", 0 - 1)>>
    /\ eig' = NoFrame
    /\ UNCHANGED <<env, given, H, O, evals, evecs, qp_mod, branch, outcome,
                   pre, resNone, signVars>>

\* lines 11-13: load the combined array and split it
EigLoad ==
    /\ pc = "E11"
    /\ LET HO == GetQuantity(env.seed, env.nsamp, env.d)
       IN  eig' = [eig EXCEPT !.H = Some(SplitH(HO)), !.O = Some(SplitO(HO))]
    /\ trace' = Append(trace, Ev("load.get_quantity", 0 - 1))
    /\ Continue("E14")
    /\ UNCHANGED <<env, call, given, H, O, evals, evecs, qp_mod, branch,
                   signVars>>

\* lines 14-18: derive the wavefunction source if none was given, load it
EigWav ==
    /\ pc = "E14"
    /\ IF env.wav = "nomatch"
       THEN /\ Finish(Raised(PatternError))
            /\ UNCHANGED trace
       ELSE /\ Continue("E19")
            /\ trace' = Append(trace, Ev("load.get_wav", 0 - 1))
    /\ UNCHANGED <<env, call, given, H, O, evals, evecs, eig, qp_mod, branch,
                   signVars>>

\* lines 19-21: the fermion signs and the similarity transform of H and O
EigSigns ==
    /\ pc = "E19"
    /\ LET sgn == Fermisigns(env.wav_st, env.d)
       IN  eig' = [eig EXCEPT !.H = Some(SignTransform(sgn, eig.H.v)),
                              !.O = Some(SignTransform(sgn, eig.O.v))]
    /\ trace' = trace \o <<Ev("load.get_attr", 0 - 1),
                           Ev("proc.fermisigns", 0 - 1)>>
    /\ Continue("E22")
    /\ UNCHANGED <<env, call, given, H, O, evals, evecs, qp_mod, branch,
                   signVars>>

\* lines 22-23: allocate the result arrays
EigAlloc ==
    /\ pc = "E22"
    /\ eig' = [eig EXCEPT !.evals = Some(ZerosEvals(eig.H.v)),
                          !.evecs = Some(ZerosEvecs(eig.H.v)),
                          !.s = 0]
    /\ Continue("E24")
    /\ UNCHANGED <<env, call, given, H, O, evals, evecs, qp_mod, branch,
                   trace, signVars>>

\* lines 24-25: one iteration of `for s in range(nsamp)`
EigLoop ==
    /\ pc = "E24"
    /\ eig.s < env.nsamp
    /\ IF eig.s >= Shape0(eig.H.v)
       THEN /\ Finish(Raised(IndexErr))
            /\ UNCHANGED <<eig, trace>>
       ELSE LET r == Geneigh(eig.H.v[eig.s], eig.O.v[eig.s],
                             eig.s = env.failAt)
                a == AfterGeneigh(r)
            IN  /\ trace' = Append(trace, Ev("proc.geneigh", eig.s))
                /\ IF a = "raise"
                   THEN /\ Finish(Raised(SolverError))
                        /\ UNCHANGED eig
                   ELSE IF a = "assign" /\ ~Fits(r.vals, eig.evals.v[eig.s])
                   THEN /\ Finish(Raised(BroadcastError))
                        /\ UNCHANGED eig
                   ELSE /\ Continue("E24")
                        /\ eig' = IF a = "assign"
                             THEN [eig EXCEPT
                                     !.evals = Some([eig.evals.v EXCEPT
                                                       ![eig.s] = r.vals]),
                                     !.evecs = Some([eig.evecs.v EXCEPT
                                                       ![eig.s] = r.vecs]),
                                     !.s = eig.s + 1]
                             ELSE [eig EXCEPT !.s = eig.s + 1]
    /\ UNCHANGED <<env, call, given, H, O, evals, evecs, qp_mod, branch,
                   signVars>>

\* line 26: return H, O, evals, evecs, to the outermost caller or to
\* line 32 of get_sq_ampl
EigReturn ==
    /\ pc = "E24"
    /\ eig.s >= env.nsamp
    /\ IF call = "eig"
       THEN /\ Finish(Returned([H |-> eig.H.v, O |-> eig.O.v,
                                evals |-> eig.evals.v, evecs |-> eig.evecs.v]))
            /\ UNCHANGED <<H, O, evals, evecs>>
       ELSE /\ Continue("L34")
            /\ H' = eig.H /\ O' = eig.O
            /\ evals' = eig.evals /\ evecs' = eig.evecs
    /\ UNCHANGED <<env, call, given, eig, qp_mod, branch, trace, signVars>>

-----------------------------------------------------------------------------
(* get_sq_ampl, lines 28-53 *)

StartSqAmpl(m) ==
    /\ given' = m
    /\ H' = IF m.H THEN Some(pre.v.H) ELSE None
    /\ O' = IF m.O THEN Some(pre.v.O) ELSE None
    /\ evals' = IF m.evals THEN Some(pre.v.evals) ELSE None
    /\ evecs' = IF m.evecs THEN Some(pre.v.evecs) ELSE None
    /\ pc' = "L31"
    /\ trace' = <<Ev("get_sq_ampl", 0 - 1)>>
    /\ eig' = NoFrame
    /\ qp_mod' = "None"
    /\ branch' = "None"
    /\ outcome' = NoOutcome
    /\ UNCHANGED <<env, pre, resNone, signVars>>

\* get_sq_ampl(filenames, nsamp, wav, tol): no precomputed eigensystem
CallGetSqAmpl ==
    /\ call = "eig" /\ pc = "done"
    /\ call' = "sq0"
    /\ StartSqAmpl(NoneGiven)

\* get_sq_ampl(filenames, nsamp, wav, tol, H=.., O=.., evals=.., evecs=..):
\* some of the four taken from what get_eig_sys returned for the same data
CallGetSqAmplPre ==
    /\ call \in {"sq0", "sqp"} /\ pc = "done"
    /\ pre.some
    /\ call' = "sqp"
    /\ \E m \in Masks \ {NoneGiven} : StartSqAmpl(m)

\* lines 31-32: `if H==None:` and the call of get_eig_sys
SqTestH ==
    /\ pc = "L31"
    /\ LET t == HIsNone(H, env.elementwise)
       IN  IF t = "raise"
           THEN /\ Finish(Raised(AmbiguousError))
                /\ UNCHANGED <<trace, eig>>
           ELSE IF t = "True"
           THEN /\ Continue("E11")
                /\ trace' = Append(trace, Ev("get_eig_sys", 0 - 1))
                /\ eig' = NoFrame
           ELSE /\ Continue("L34")
                /\ UNCHANGED <<trace, eig>>
    /\ UNCHANGED <<env, call, given, H, O, evals, evecs, qp_mod, branch,
                   signVars>>

\* lines 33-40: load the run parameters and select the module
SqParams ==
    /\ pc = "L34"
    /\ trace' = Append(trace, Ev("load.get_attr", 0 - 1))
    /\ LET m == SelectModule(env.sfpnxphz_wav, env.stagflux_wav)
       IN  IF m = "raise"
           THEN /\ Finish(Raised(UnsupportedError))
                /\ UNCHANGED qp_mod
           ELSE /\ Continue("L41")
                /\ qp_mod' = m
    /\ UNCHANGED <<env, call, given, H, O, evals, evecs, eig, branch,
                   signVars>>

\* lines 41-53: the operator vectors, the output branch and the contraction
SqProject ==
    /\ pc = "L41"
    /\ LET pkq == Spinops(qp_mod, env.d)
           called == Append(trace, Ev(qp_mod \o ".spinops", 0 - 1))
           b == SelectBranch(env.sfpnxphz_wav, env.stagflux_wav)
           idx == ChannelIndex(env.channel)
           operands == O.some /\ evecs.some
       IN  /\ branch' = b
           /\ IF b = "stagflux"
              THEN IF idx < 0
                   THEN /\ Finish(Raised(ChannelError))
                        /\ trace' = called
                   ELSE /\ trace' = Append(called, Ev("np.einsum", idx))
                        /\ IF operands
                           THEN Finish(Returned(SqAmpl(pkq[idx], O.v, evecs.v)))
                           ELSE Finish(Raised(OperandError))
              ELSE IF b = "sfpnxphz"
              THEN IF operands
                   THEN /\ trace' = called \o [a \in 1 .. 3 |->
                                                 Ev("np.einsum", a - 1)]
                        /\ Finish(Returned([a \in 0 .. 2 |->
                                              SqAmpl(pkq[a], O.v, evecs.v)]))
                   ELSE /\ trace' = Append(called, Ev("np.einsum", 0))
                        /\ Finish(Raised(OperandError))
              ELSE /\ trace' = called
                   /\ Finish([kind |-> "return", err |-> "", val |-> None])
    /\ UNCHANGED <<env, call, given, H, O, evals, evecs, eig, qp_mod,
                   signVars>>

Next ==
    \/ CallGetEigSys
    \/ EigLoad
    \/ EigWav
    \/ EigSigns
    \/ EigAlloc
    \/ EigLoop
    \/ EigReturn
    \/ CallGetSqAmpl
    \/ CallGetSqAmplPre
    \/ SqTestH
    \/ SqParams
    \/ SqProject

Spec == Init /\ [][Next]_vars

-----------------------------------------------------------------------------
(* The fermion-sign transform on its own, lines 19-21 *)

SignSeeds == {0, 1, 2}

SignInit ==
    /\ IdleCall
    /\ \E n \in 1 .. MaxSamp, d \in 1 .. MaxDim, seed \in SignSeeds,
          half \in {"H", "O"} :
         /\ env = [nsamp |-> n, d |-> d, seed |-> seed]
         /\ tfs \in [Range(d) -> {0 - 1, 1}]
         /\ tM0 = IF half = "H" THEN SplitH(GetQuantity(seed, n, d))
                                ELSE SplitO(GetQuantity(seed, n, d))
    /\ tM = tM0
    /\ tn = 0

\* H=np.einsum('ij,kjl,lm->kim',fs,H,fs) applied once more
ApplySign ==
    /\ tn < 2
    /\ tM' = SignTransform(tfs, tM)
    /\ tn' = tn + 1
    /\ UNCHANGED <<callVars, tfs, tM0>>

SignNext == ApplySign

SpecSign == SignInit /\ [][SignNext]_vars

-----------------------------------------------------------------------------
(* Properties *)

Count(f) == Cardinality({i \in DOMAIN trace : trace[i].f = f})
Has(f) == \E i \in DOMAIN trace : trace[i].f = f
HasSpinops == Has("stagflux.spinops") \/ Has("sfpnxphz.spinops")
InSqAmpl == call \in {"sq0", "sqp"}
Ended == pc = "done"
RaisedErr(e) == Ended /\ outcome.kind = "raise" /\ outcome.err = e
NeitherFamily == ~env.sfpnxphz_wav /\ ~env.stagflux_wav
SameOutcome(a, b) ==
    /\ a.kind = b.kind
    /\ a.err = b.err
    /\ (a.kind = "return" => a.val = b.val)
HasShape2(A, n, m) ==
    /\ DOMAIN A = Range(n)
    /\ \A k \in DOMAIN A : DOMAIN A[k] = Range(m)
HasShape3(A, n, m, l) ==
    /\ DOMAIN A = Range(n)
    /\ \A k \in DOMAIN A : HasShape2(A[k], m, l)

\* C1 as stated: in a call of get_sq_ampl whose run parameters have both
\* family flags false, no get_eig_sys and no proc.geneigh call is ever made,
\* whether or not H was passed (the error comes before any eigen work).
C1_NoEigWorkBeforeUnsupported ==
    (InSqAmpl /\ NeitherFamily) =>
        (~Has("get_eig_sys") /\ ~Has("proc.geneigh"))

\* C1 amended: with both family flags false, get_sq_ampl never calls spinops
\* or contracts and never returns; the unsupported-configuration error is
\* raised right after the run parameters are loaded.  With H passed no
\* get_eig_sys, loader-array or solver call precedes it; with H absent
\* get_eig_sys has run first with one solve per sample, and the call ends in
\* the unsupported error unless get_eig_sys or the H test failed before.
C1_UnsupportedAfterEigSys ==
    (InSqAmpl /\ NeitherFamily) =>
        /\ ~HasSpinops /\ ~Has("np.einsum")
        /\ outcome.kind # "return"
        /\ given.H => (~Has("get_eig_sys") /\ ~Has("proc.geneigh")
                       /\ ~Has("load.get_quantity"))
        /\ RaisedErr(UnsupportedError) =>
              /\ trace[Len(trace)] = Ev("load.get_attr", 0 - 1)
              /\ ~given.H => (Has("get_eig_sys")
                              /\ Count("proc.geneigh") = env.nsamp)
        /\ Ended => outcome.err \in {UnsupportedError, SolverError,
                                     PatternError, AmbiguousError}
        /\ (Ended /\ H.some /\ outcome.err # AmbiguousError) =>
              outcome.err = UnsupportedError

\* C1 witness: the unsupported error raised after a full eigendecomposition
C1_Witness ==
    /\ InSqAmpl /\ NeitherFamily /\ ~given.H
    /\ RaisedErr(UnsupportedError)
    /\ env.nsamp >= 2
    /\ Count("proc.geneigh") = env.nsamp

\* C2 as stated: a get_sq_ampl call that was passed H, O, evals and evecs
\* calls neither get_eig_sys nor any loader function (get_quantity, get_wav,
\* get_attr).
C2_NoLoaderCallWithPrecomputed ==
    (call = "sqp" /\ given = AllGiven) =>
        /\ ~Has("get_eig_sys")
        /\ ~Has("load.get_quantity")
        /\ ~Has("load.get_wav")
        /\ ~Has("load.get_attr")

\* C2 amended: a get_sq_ampl call that was passed H, O, evals and evecs never
\* calls get_eig_sys, load.get_quantity, load.get_wav, proc.fermisigns or
\* proc.geneigh; it calls load.get_attr exactly once, to read the run
\* parameters, unless the H test itself raised first.
C2_OnlyGetAttrWithPrecomputed ==
    (call = "sqp" /\ given = AllGiven) =>
        /\ ~Has("get_eig_sys")
        /\ ~Has("load.get_quantity")
        /\ ~Has("load.get_wav")
        /\ ~Has("proc.fermisigns")
        /\ ~Has("proc.geneigh")
        /\ Count("load.get_attr") <= 1
        /\ Ended => (Count("load.get_attr") = 1
                        <=> outcome.err # AmbiguousError)

\* C2 witness: a call with all four passed returned amplitudes after reading
\* the run parameters
C2_Witness ==
    /\ call = "sqp" /\ given = AllGiven /\ Ended
    /\ outcome.kind = "return"
    /\ Count("load.get_attr") = 1
    /\ ~Has("get_eig_sys")

\* C3: get_sq_ampl called with the (H, O, evals, evecs) that get_eig_sys
\* returned for the same data ends exactly as get_sq_ampl called without
\* them did: the same amplitudes, or the same error.
C3_SameOutputWithPrecomputed ==
    (call = "sqp" /\ given = AllGiven /\ Ended) =>
        SameOutcome(outcome, resNone)

EinsumIndices == {trace[i].n : i \in {j \in DOMAIN trace :
                                        trace[j].f = "np.einsum"}}

\* C5: in a stagflux run get_sq_ampl contracts only operator vector 1 for
\* channel 'trans' and only operator vector 2 for channel 'long', and what it
\* returns is the squared contraction of that vector of spinops' result.
C5_ChannelSelectsIndex ==
    (InSqAmpl /\ env.stagflux_wav) =>
        /\ env.channel = "trans" => EinsumIndices \subseteq {1}
        /\ env.channel = "long" => EinsumIndices \subseteq {2}
        /\ (Ended /\ outcome.kind = "return") =>
              /\ env.channel = "trans" =>
                    /\ EinsumIndices = {1}
                    /\ outcome.val.v =
                         SqAmpl(Spinops(qp_mod, env.d)[1], O.v, evecs.v)
              /\ env.channel = "long" =>
                    /\ EinsumIndices = {2}
                    /\ outcome.val.v =
                         SqAmpl(Spinops(qp_mod, env.d)[2], O.v, evecs.v)
              /\ env.channel \in {"trans", "long"}

\* C5 witness: a 'long' stagflux call returned amplitudes that differ from
\* what operator vector 1 gives on the same O and evecs
C5_Witness ==
    /\ InSqAmpl /\ env.stagflux_wav /\ env.channel = "long"
    /\ Ended /\ outcome.kind = "return"
    /\ outcome.val.v # SqAmpl(Spinops(qp_mod, env.d)[1], O.v, evecs.v)

\* C6: a stagflux run whose channel is neither 'trans' nor 'long' never
\* contracts and never returns amplitudes; once the module is selected the
\* call ends in the unrecognized-channel error.
C6_UnknownChannelRaises ==
    (InSqAmpl /\ env.stagflux_wav /\ env.channel \notin {"trans", "long"}) =>
        /\ outcome.kind # "return"
        /\ ~Has("np.einsum")
        /\ (Ended /\ qp_mod # "None") => RaisedErr(ChannelError)
        /\ (Ended /\ HasSpinops) => RaisedErr(ChannelError)

\* C6 witness: channel 'diagonal' in a stagflux run raised the channel error
C6_Witness ==
    /\ InSqAmpl /\ env.stagflux_wav /\ ~env.sfpnxphz_wav
    /\ env.channel = "diagonal"
    /\ RaisedErr(ChannelError)

\* C7: when the solver fails on sample s the call ends there with the
\* solver's error and no value: the solves attempted are those of samples
\* 0..s, once each, the failed one last; nothing is called after it (no
\* spinops, no contraction) and neither the caller of get_eig_sys nor
\* get_sq_ampl's own H, O, evals, evecs receive a partial eigensystem.
C7_SolverFailureIsFatal ==
    /\ \A i \in DOMAIN trace :
          (trace[i].f = "proc.geneigh" /\ env.failAt >= 0) =>
              trace[i].n <= env.failAt
    /\ \A i, j \in DOMAIN trace :
          (trace[i].f = "proc.geneigh" /\ trace[j].f = "proc.geneigh"
             /\ i < j) => trace[i].n < trace[j].n
    /\ Has("proc.geneigh") /\ trace[Len(trace)].f # "proc.geneigh" =>
          env.failAt < 0
    /\ (\E i \in DOMAIN trace : trace[i] = Ev("proc.geneigh", env.failAt)) =>
          /\ RaisedErr(SolverError)
          /\ trace[Len(trace)] = Ev("proc.geneigh", env.failAt)
          /\ Count("proc.geneigh") = env.failAt + 1
    /\ RaisedErr(SolverError) =>
          /\ ~outcome.val.some
          /\ ~HasSpinops /\ ~Has("np.einsum")
          /\ call = "eig" => ~pre.some
          /\ call = "sq0" => (~H.some /\ ~O.some /\ ~evals.some
                              /\ ~evecs.some /\ resNone = outcome)

\* C7 witness: get_sq_ampl ended in the solver's error on the first of
\* several samples
C7_Witness ==
    /\ call = "sq0" /\ RaisedErr(SolverError)
    /\ env.failAt = 0 /\ env.nsamp >= 2
    /\ Count("proc.geneigh") = 1

\* C8: applying the fermion-sign transform twice with the same +1/-1 sign
\* vector gives back the original batch, and every application keeps the
\* number of samples and the d x d shape of each matrix.
C8_SignTransformInvolution ==
    /\ tn = 2 => tM = tM0
    /\ tn > 0 => HasShape3(tM, Shape0(tM0), Shape1(tM0), Shape2(tM0))
    /\ tn > 0 => (Shape1(tM) = env.d /\ Shape2(tM) = env.d
                  /\ Shape0(tM) = env.nsamp)

\* C8 witness: a sign vector that changes the batch, applied twice
C8_Witness ==
    /\ tn = 2 /\ tM = tM0
    /\ SignTransform(tfs, tM0) # tM0
    /\ \E i \in DOMAIN tfs : tfs[i] = 0 - 1

\* C9: whatever the two family flags are, the output branch get_sq_ampl takes
\* is that of the module whose spinops it called, and with sfpnxphz_wav true
\* the result is the 3-element collection of the sfpnxphz branch.
C9_BranchMatchesModule ==
    (InSqAmpl /\ branch # "None") =>
        /\ branch = qp_mod
        /\ env.sfpnxphz_wav => branch = "sfpnxphz"

\* C10 as stated: whenever get_sq_ampl has reached a contraction, both O and
\* evecs are present, whichever of the four optional arguments were passed.
C10_OperandsPresentAtContraction ==
    (InSqAmpl /\ Has("np.einsum")) => (O.some /\ evecs.some)

\* C10 amended: presence is judged by H alone.  When get_sq_ampl reaches a
\* contraction after a call without H, get_eig_sys was called and O and evecs
\* are the ones it returned; after a call with H, O and evecs all passed they
\* are the ones passed; after a call with H but without O or evecs,
\* get_eig_sys was not called, the operand is still absent and the
\* contraction fails.
C10_OperandsPresentIffBuiltOrPassed ==
    (InSqAmpl /\ Has("np.einsum")) =>
        /\ (~given.H \/ (given.O /\ given.evecs)) => (O.some /\ evecs.some)
        /\ ~given.H => (Has("get_eig_sys") /\ O = eig.O /\ evecs = eig.evecs)
        /\ given.H =>
              /\ ~Has("get_eig_sys")
              /\ O.some <=> given.O
              /\ evecs.some <=> given.evecs
        /\ (given.H /\ ~(given.O /\ given.evecs)) =>
              (Ended => RaisedErr(OperandError))
        /\ (Ended /\ outcome.kind = "return") => (O.some /\ evecs.some)

\* C10 witness: H passed without O, and the contraction failed on it
C10_Witness ==
    /\ InSqAmpl /\ given.H /\ ~given.O /\ given.evecs
    /\ Has("np.einsum")
    /\ RaisedErr(OperandError)

=============================================================================
